---- MODULE Spec2Model ----
(***************************************************************************)
(* Model of lambda-builder's build pipeline (src/builders/main.go):        *)
(* executeBuilder and the stages it calls, and the build-image/run-image   *)
(* resolution of getBuildImage / getRunImage over lambda.yml.              *)
(***************************************************************************)
EXTENDS Integers, Sequences, FiniteSets, TLC

\* ------------------------------------------------------------------ bounds
\* Exit codes of an external docker process are drawn from -1..MaxExitCode
\* (-1 is what the process library reports for a process ended by a signal).
MaxExitCode == 2
\* lambda.yml documents have at most MaxYmlLines lines.
MaxYmlLines == 2
\* os.TempDir() has room for MaxTmpNames names with the prefix lambda-builder.
MaxTmpNames == 4

VARIABLES
    config,       \* the Config handed to executeBuilder / getBuildImage / getRunImage
    pc,           \* position of executeBuilder
    outcome,      \* "running", "returned" or "panicked"
    err,          \* the error executeBuilder returned (Nil for nil)
    defers,       \* executeBuilder's stack of deferred calls, oldest first
    archive,      \* <WorkingDirectory>/lambda.zip
    workProcfile, \* <WorkingDirectory>/Procfile
    scratch,      \* taskHostBuildDir, the scratch extraction directory
    dockerfile,   \* the temporary Dockerfile (dockerfilePath)
    handler,      \* the local variable handler
    log,          \* history: the stages executed so far, with their raw outcome
    lambdaYml,    \* <WorkingDirectory>/lambda.yml
    resolved,     \* results of getBuildImage / getRunImage
    docker,       \* history: the docker commands launched, in order
    invs,         \* two concurrent invocations of executeBuilder, by number
    tmpdir,       \* the names that exist in os.TempDir()
    accesses      \* history: which invocation read, wrote or removed which path

soloVars == <<config, pc, outcome, err, defers, archive, workProcfile, scratch,
              dockerfile, handler, log, lambdaYml, resolved, docker>>

pairVars == <<invs, tmpdir, accesses>>

vars == <<soloVars, pairVars>>

pipelineVars == <<pc, outcome, err, defers, archive, workProcfile, scratch,
                  dockerfile, handler, log>>

\* ------------------------------------------------------------- values
\* An error value: its message format and the exit code formatted into it
\* (hasCode is FALSE for messages that format no exit code).
Error(msg, hasCode, code) == [msg |-> msg, hasCode |-> hasCode, code |-> code]
Nil == Error("", FALSE, 0)

NoFile == [exists |-> FALSE, content |-> ""]
File(c) == [exists |-> TRUE, content |-> c]

\* The temporary Dockerfile: whether it exists and the lines written to it.
NoTemp == [exists |-> FALSE, content |-> <<>>]
TempFile(lines) == [exists |-> TRUE, content |-> lines]

ExitCodes == -1 .. MaxExitCode

\* type Config struct: the fields the modelled functions read.
\* WorkingDirectory is a path, held as its sequence of tokens: "/" and names.
Config(genImg, writeProc, h, buildImg, runImg, port, tag, wd) ==
    [GenerateRunImage  |-> genImg,
     WriteProcfile     |-> writeProc,
     Handler           |-> h,
     BuilderBuildImage |-> buildImg,
     BuilderRunImage   |-> runImg,
     Port              |-> port,
     ImageEnv          |-> <<"TZ=UTC">>,
     ImageLabels       |-> <<"team=fn">>,
     ImageTag          |-> tag,
     Identifier        |-> "id1",
     WorkingDirectory  |-> wd]

\* ------------------------------------------------------------- paths
\* The text of a path.
RECURSIVE PathString(_)
PathString(p) == IF p = <<>> THEN "" ELSE Head(p) \o PathString(Tail(p))

\* The path without its trailing "/" tokens.
RECURSIVE StripTrailingSlashes(_)
StripTrailingSlashes(p) ==
    IF p # <<>> /\ p[Len(p)] = "/" THEN StripTrailingSlashes(SubSeq(p, 1, Len(p) - 1))
    ELSE p

\* filepath.Base: "." for the empty path, "/" for a path of slashes only,
\* otherwise the last element, trailing slashes dropped.
Base(p) ==
    IF p = <<>> THEN "."
    ELSE LET q == StripTrailingSlashes(p) IN
         IF q = <<>> THEN "/" ELSE q[Len(q)]

\* Variant: the whole working directory path goes into the tag.
GetImageTag_NoBase(c) ==
    IF c.ImageTag # "" THEN c.ImageTag
    ELSE "lambda-builder/" \o PathString(c.WorkingDirectory) \o ":latest"

\* Config.GetImageTag
GetImageTag(c) ==
    IF c.ImageTag # "" THEN c.ImageTag
    ELSE "lambda-builder/" \o Base(c.WorkingDirectory) \o ":latest"

\* The arguments executeBuildContainer launches docker with.
ContainerRunArgs(c) ==
    [command |-> "container run",
     name    |-> "lambda-builder-executor-" \o c.Identifier,
     mount   |-> c.WorkingDirectory,
     volume  |-> PathString(c.WorkingDirectory) \o ":/tmp/task",
     image   |-> c.BuilderBuildImage]

\* The arguments buildDockerImage launches docker with, and the tag
\* executeBuilder prints right before; the --file and the build context are
\* the temporary Dockerfile and the scratch directory of the invocation.
ImageBuildArgs(c) ==
    [command |-> "image build",
     file    |-> "dockerfilePath",
     tag     |-> GetImageTag(c),
     labels  |-> c.ImageLabels,
     context |-> "taskHostBuildDir",
     printed |-> GetImageTag(c)]

\* ------------------------------------------------------------- lambda.zip
\* The states lambda.zip can be in after the sandbox ran.  A valid archive
\* carries whether it holds a Procfile and the entry point the builder's
\* handler detection finds in its tree ("" when it finds none).
Zip(kind, procfile, entry) == [kind |-> kind, procfile |-> procfile, entry |-> entry]

ArchiveStates ==
    { Zip("missing", NoFile, ""), Zip("unreadable", NoFile, ""),
      Zip("corrupt", NoFile, "") }
    \cup { Zip("valid", p, e) : p \in {NoFile, File("web: zipped")},
                                e \in {"", "index.handler"} }

\* ioutil.ReadFile(zipPath) with its error discarded: the bytes read, which
\* are empty when the file is missing or unreadable.
ReadFile(a) ==
    IF a.kind \in {"missing", "unreadable"} THEN Zip("empty", NoFile, "") ELSE a

\* Variant: empty bytes extract as an archive with no entries.
ExtractZip_EmptyOk(data) ==
    IF data.kind \in {"valid", "empty"}
    THEN [ok |-> TRUE,  procfile |-> data.procfile, entry |-> data.entry]
    ELSE [ok |-> FALSE, procfile |-> NoFile, entry |-> ""]

\* extract.Zip: fails on bytes that are no zip archive (empty included),
\* otherwise yields the archive's tree.
ExtractZip(data) ==
    IF data.kind = "valid"
    THEN [ok |-> TRUE,  procfile |-> data.procfile, entry |-> data.entry]
    ELSE [ok |-> FALSE, procfile |-> NoFile, entry |-> ""]

NoDir == [exists |-> FALSE, procfile |-> NoFile, entry |-> ""]
EmptyDir == [exists |-> TRUE, procfile |-> NoFile, entry |-> ""]

\* io.FileExistsInDirectory(dir, "Procfile") on the scratch directory.
FileExistsInDirectory(dir) == dir.exists /\ dir.procfile.exists

\* getFunctionHandler: the explicit config.Handler wins, otherwise the
\* builder's detection over the extracted tree.
getFunctionHandler(dir, c) == IF c.Handler # "" THEN c.Handler ELSE dir.entry

\* The Procfile text writeProcfile produces for a handler.
ProcfileText(h) == "web: " \o h

\* ------------------------------------------------------------- stage results
\* Variant: only a positive exit code counts as a failure.
executeBuildContainer_PositiveOnly(launchErr, exitCode) ==
    IF launchErr THEN Error("error executing builder: %w", FALSE, 0)
    ELSE IF exitCode > 0 THEN Error("error executing builder, exit code %d", TRUE, exitCode)
    ELSE Nil

\* executeBuildContainer's result from cmd.Execute()'s (err, res.ExitCode).
executeBuildContainer(launchErr, exitCode) ==
    IF launchErr THEN Error("error executing builder: %w", FALSE, 0)
    ELSE IF exitCode # 0 THEN Error("error executing builder, exit code %d", TRUE, exitCode)
    ELSE Nil

\* Variant: the exit code of the image build is not looked at.
buildDockerImage_IgnoreExit(launchErr, exitCode) ==
    IF launchErr THEN Error("error building image: %w", FALSE, 0)
    ELSE Nil

\* buildDockerImage's result from cmd.Execute()'s (err, res.ExitCode).
buildDockerImage(launchErr, exitCode) ==
    IF launchErr THEN Error("error building image: %w", FALSE, 0)
    ELSE IF exitCode # 0 THEN Error("error building image, exit code %d", TRUE, exitCode)
    ELSE Nil

\* A history entry: the stage that ran and what really happened in it.
Stage(name, ok, launchErr, exitCode) ==
    [stage |-> name, ok |-> ok, launchErr |-> launchErr, exitCode |-> exitCode]
Step(name, ok) == Stage(name, ok, FALSE, 0)

\* ------------------------------------------------------------- Dockerfile
\* strconv.Itoa.
Digit(d) == <<"0", "1", "2", "3", "4", "5", "6", "7", "8", "9">>[d + 1]

RECURSIVE ItoaNat(_)
ItoaNat(n) == IF n < 10 THEN Digit(n) ELSE ItoaNat(n \div 10) \o Digit(n % 10)

Itoa(n) == IF n < 0 THEN "-" \o ItoaNat(-n) ELSE ItoaNat(n)

\* The data map handed to the template: keys cmd, env, port, run_image.
TemplateData(cmd, c) ==
    [cmd |-> cmd, env |-> c.ImageEnv, port |-> Itoa(c.Port), run_image |-> c.BuilderRunImage]

\* {{ if ne .command "" }}: the data map has no key "command", so .command
\* is the missing value, which is equal to no string: ne yields true.
NeCommandEmpty(data) ==
    IF "command" \in DOMAIN data THEN data["command"] # "" ELSE TRUE

\* The text the template renders, one record per directive line.
Line(directive, arg) == [directive |-> directive, arg |-> arg]

\* Variant: the two port lines are rendered whatever the port is.
RenderTemplate_PortAlways(data) ==
    <<Line("FROM", data.run_image)>>
    \o <<Line("ENV", "DOCKER_LAMBDA_API_PORT=" \o data.port),
         Line("ENV", "DOCKER_LAMBDA_RUNTIME_PORT=" \o data.port)>>
    \o [i \in 1..Len(data.env) |-> Line("ENV", data.env[i])]
    \o (IF NeCommandEmpty(data) THEN <<Line("CMD", data.cmd)>> ELSE <<>>)
    \o <<Line("COPY", ". /var/task")>>

RenderTemplate(data) ==
    <<Line("FROM", data.run_image)>>
    \o (IF data.port # "-1"
        THEN <<Line("ENV", "DOCKER_LAMBDA_API_PORT=" \o data.port),
               Line("ENV", "DOCKER_LAMBDA_RUNTIME_PORT=" \o data.port)>>
        ELSE <<>>)
    \o [i \in 1..Len(data.env) |-> Line("ENV", data.env[i])]
    \o (IF NeCommandEmpty(data) THEN <<Line("CMD", data.cmd)>> ELSE <<>>)
    \o <<Line("COPY", ". /var/task")>>

\* generateDockerfile: the error it returns and the text left in the file;
\* writeOk is whether tpl.Execute could write the file.
generateDockerfile(cmd, c, writeOk) ==
    IF writeOk
    THEN [err |-> Nil, text |-> RenderTemplate(TemplateData(cmd, c))]
    ELSE [err |-> Error("error writing Dockerfile: %s", FALSE, 0), text |-> <<>>]

\* ------------------------------------------------------------- return
\* The deferred calls run when executeBuilder returns, newest first.
\* "RemoveAll" is os.RemoveAll(taskHostBuildDir); "Remove" is
\* os.Remove(dockerfilePath.Name()) on a created file; "RemoveNil" is the
\* same deferred call when ioutil.TempFile returned a nil file: Name()
\* dereferences it and panics.  A panic in a deferred call does not stop
\* the older deferred calls from running.
DeferHas(ds, d) == \E i \in 1..Len(ds) : ds[i] = d

Return(e, ds) ==
    /\ pc' = "done"
    /\ outcome' = IF DeferHas(ds, "RemoveNil") THEN "panicked" ELSE "returned"
    /\ err' = IF DeferHas(ds, "RemoveNil") THEN Nil ELSE e
    /\ scratch' = IF DeferHas(ds, "RemoveAll") THEN NoDir ELSE scratch
    /\ dockerfile' = IF DeferHas(ds, "Remove") THEN NoTemp ELSE dockerfile
    /\ defers' = <<>>

\* ------------------------------------------------------------- executeBuilder
\* if err := executeBuildContainer(script, config); err != nil { return err }
\* The sandbox, when it launches, leaves lambda.zip in some state.
ExecuteBuildContainer ==
    /\ pc = "start"
    /\ \E launchErr \in BOOLEAN, exitCode \in ExitCodes, zip \in ArchiveStates :
         LET e == executeBuildContainer(launchErr, exitCode) IN
         /\ launchErr => (exitCode = 0 /\ zip = archive)
         /\ log' = Append(log, Stage("container", ~launchErr /\ exitCode = 0,
                                     launchErr, exitCode))
         /\ docker' = Append(docker, ContainerRunArgs(config))
         /\ archive' = zip
         /\ IF e # Nil
            THEN Return(e, defers)
            ELSE /\ pc' = "mkdir"
                 /\ UNCHANGED <<outcome, err, defers, scratch, dockerfile>>
    /\ UNCHANGED <<config, workProcfile, handler, lambdaYml, resolved, pairVars>>

\* Variant: the removal of the scratch directory is not deferred.
MkdirTemp_NoDefer ==
    /\ pc = "mkdir"
    /\ \E ok \in BOOLEAN :
         /\ log' = Append(log, Step("mkdir", ok))
         /\ IF ~ok
            THEN Return(Error("error creating build dir: %w", FALSE, 0), defers)
            ELSE /\ pc' = "extract"
                 /\ scratch' = EmptyDir
                 /\ UNCHANGED <<outcome, err, dockerfile, defers>>
    /\ UNCHANGED <<docker, config, archive, workProcfile, handler, lambdaYml, resolved, pairVars>>

\* taskHostBuildDir, err := os.MkdirTemp(...); defer os.RemoveAll(taskHostBuildDir)
MkdirTemp ==
    /\ pc = "mkdir"
    /\ \E ok \in BOOLEAN :
         /\ log' = Append(log, Step("mkdir", ok))
         /\ IF ~ok
            THEN Return(Error("error creating build dir: %w", FALSE, 0), defers)
            ELSE /\ pc' = "extract"
                 /\ scratch' = EmptyDir
                 /\ defers' = Append(defers, "RemoveAll")
                 /\ UNCHANGED <<outcome, err, dockerfile>>
    /\ UNCHANGED <<docker, config, archive, workProcfile, handler, lambdaYml, resolved, pairVars>>

\* Variant: the error of extract.Zip is discarded and the pipeline goes on.
Extract_IgnoreErr ==
    /\ pc = "extract"
    /\ LET r == ExtractZip(ReadFile(archive))
           dir == [exists |-> TRUE, procfile |-> r.procfile, entry |-> r.entry] IN
         /\ log' = Append(log, Step("extract", r.ok))
         /\ pc' = "procfile"
         /\ scratch' = dir
         /\ handler' = getFunctionHandler(dir, config)
         /\ UNCHANGED <<outcome, err, defers, dockerfile>>
    /\ UNCHANGED <<docker, config, archive, workProcfile, lambdaYml, resolved, pairVars>>

\* data, _ := ioutil.ReadFile(zipPath); extract.Zip(..., taskHostBuildDir, nil);
\* handler := getFunctionHandler(taskHostBuildDir, config)
Extract ==
    /\ pc = "extract"
    /\ LET r == ExtractZip(ReadFile(archive))
           dir == [exists |-> TRUE, procfile |-> r.procfile, entry |-> r.entry] IN
         /\ log' = Append(log, Step("extract", r.ok))
         /\ IF ~r.ok
            THEN /\ Return(Error("error extracting lambda.zip into build context dir: %w",
                                 FALSE, 0), defers)
                 /\ UNCHANGED handler
            ELSE /\ pc' = "procfile"
                 /\ scratch' = dir
                 /\ handler' = getFunctionHandler(dir, config)
                 /\ UNCHANGED <<outcome, err, defers, dockerfile>>
    /\ UNCHANGED <<docker, config, archive, workProcfile, lambdaYml, resolved, pairVars>>

\* Variant: the Procfile is looked for in the working directory.
ProcfileWanted_WorkingDirCheck ==
    /\ config.WriteProcfile
    /\ ~workProcfile.exists
    /\ handler # ""

\* if config.WriteProcfile && !io.FileExistsInDirectory(taskHostBuildDir, "Procfile")
\* and, inside it, handler != "".
ProcfileWanted ==
    /\ config.WriteProcfile
    /\ ~FileExistsInDirectory(scratch)
    /\ handler # ""

\* Variant: an empty handler with WriteProcfile set is an error.
SkipProcfile_EmptyHandlerFails ==
    /\ pc = "procfile"
    /\ ~ProcfileWanted
    /\ IF config.WriteProcfile /\ ~FileExistsInDirectory(scratch) /\ handler = ""
       THEN Return(Error("unable to detect handler", FALSE, 0), defers)
       ELSE /\ pc' = "image"
            /\ UNCHANGED <<outcome, err, defers, scratch, dockerfile>>
    /\ UNCHANGED <<docker, config, archive, workProcfile, handler, log, lambdaYml, resolved, pairVars>>

\* The Procfile block is skipped (or only prints that no handler was detected).
SkipProcfile ==
    /\ pc = "procfile"
    /\ ~ProcfileWanted
    /\ pc' = "image"
    /\ UNCHANGED <<docker, config, outcome, err, defers, archive, workProcfile, scratch,
                   dockerfile, handler, log, lambdaYml, resolved, pairVars>>

\* writeProcfile(handler, config.WorkingDirectory)
WriteProcfileWorkingDir ==
    /\ pc = "procfile"
    /\ ProcfileWanted
    /\ \E ok \in BOOLEAN :
         /\ log' = Append(log, Step("procfileWork", ok))
         /\ IF ~ok
            THEN /\ Return(Error("error writing Procfile to working directory: %w",
                                 FALSE, 0), defers)
                 /\ UNCHANGED workProcfile
            ELSE /\ pc' = "procfileBuild"
                 /\ workProcfile' = File(ProcfileText(handler))
                 /\ UNCHANGED <<outcome, err, defers, scratch, dockerfile>>
    /\ UNCHANGED <<docker, config, archive, handler, lambdaYml, resolved, pairVars>>

\* Variant: the build directory gets the Procfile of config.Handler instead
\* of the resolved handler.
WriteProcfileBuildDir_ConfigHandler ==
    /\ pc = "procfileBuild"
    /\ \E ok \in BOOLEAN :
         /\ log' = Append(log, Step("procfileBuild", ok))
         /\ IF ~ok
            THEN Return(Error("error writing Procfile to temporary build directory: %w",
                              FALSE, 0), defers)
            ELSE /\ pc' = "image"
                 /\ scratch' = [scratch EXCEPT !.procfile = File(ProcfileText(config.Handler))]
                 /\ UNCHANGED <<outcome, err, defers, dockerfile>>
    /\ UNCHANGED <<docker, config, archive, workProcfile, handler, lambdaYml, resolved, pairVars>>

\* Variant: a failed write to the build directory takes the Procfile of the
\* working directory back.
WriteProcfileBuildDir_Rollback ==
    /\ pc = "procfileBuild"
    /\ \E ok \in BOOLEAN :
         /\ log' = Append(log, Step("procfileBuild", ok))
         /\ IF ~ok
            THEN /\ Return(Error("error writing Procfile to temporary build directory: %w",
                                 FALSE, 0), defers)
                 /\ workProcfile' = NoFile
            ELSE /\ pc' = "image"
                 /\ scratch' = [scratch EXCEPT !.procfile = File(ProcfileText(handler))]
                 /\ UNCHANGED <<outcome, err, defers, dockerfile, workProcfile>>
    /\ UNCHANGED <<docker, config, archive, handler, lambdaYml, resolved, pairVars>>

\* writeProcfile(handler, taskHostBuildDir)
WriteProcfileBuildDir ==
    /\ pc = "procfileBuild"
    /\ \E ok \in BOOLEAN :
         /\ log' = Append(log, Step("procfileBuild", ok))
         /\ IF ~ok
            THEN Return(Error("error writing Procfile to temporary build directory: %w",
                              FALSE, 0), defers)
            ELSE /\ pc' = "image"
                 /\ scratch' = [scratch EXCEPT !.procfile = File(ProcfileText(handler))]
                 /\ UNCHANGED <<outcome, err, defers, dockerfile>>
    /\ UNCHANGED <<docker, config, archive, workProcfile, handler, lambdaYml, resolved, pairVars>>

\* if config.GenerateRunImage { ... } is skipped; return nil
SkipImage ==
    /\ pc = "image"
    /\ ~config.GenerateRunImage
    /\ Return(Nil, defers)
    /\ UNCHANGED <<docker, config, archive, workProcfile, handler, log, lambdaYml, resolved, pairVars>>

\* Variant: the temporary Dockerfile is created without deferring its removal.
CreateTempDockerfile_NoDefer ==
    /\ pc = "image"
    /\ config.GenerateRunImage
    /\ \E ok \in BOOLEAN :
         /\ log' = Append(log, Step("tempfile", ok))
         /\ IF ~ok
            THEN Return(Error("error generating temporary Dockerfile: %w", FALSE, 0), defers)
            ELSE /\ pc' = "render"
                 /\ dockerfile' = TempFile(<<>>)
                 /\ UNCHANGED <<outcome, err, scratch, defers>>
    /\ UNCHANGED <<docker, config, archive, workProcfile, handler, lambdaYml, resolved, pairVars>>

\* Variant: the image stage is entered whatever config.GenerateRunImage is.
CreateTempDockerfile_Unguarded ==
    /\ pc = "image"
    /\ \E ok \in BOOLEAN :
         /\ log' = Append(log, Step("tempfile", ok))
         /\ IF ~ok
            THEN Return(Error("error generating temporary Dockerfile: %w", FALSE, 0),
                        Append(defers, "RemoveNil"))
            ELSE /\ pc' = "render"
                 /\ dockerfile' = TempFile(<<>>)
                 /\ defers' = Append(defers, "Remove")
                 /\ UNCHANGED <<outcome, err, scratch>>
    /\ UNCHANGED <<docker, config, archive, workProcfile, handler, lambdaYml, resolved, pairVars>>

\* dockerfilePath, err := ioutil.TempFile(...); defer os.Remove(dockerfilePath.Name());
\* if err != nil { return ... }.  The defer is registered before err is looked at.
CreateTempDockerfile ==
    /\ pc = "image"
    /\ config.GenerateRunImage
    /\ \E ok \in BOOLEAN :
         /\ log' = Append(log, Step("tempfile", ok))
         /\ IF ~ok
            THEN Return(Error("error generating temporary Dockerfile: %w", FALSE, 0),
                        Append(defers, "RemoveNil"))
            ELSE /\ pc' = "render"
                 /\ dockerfile' = TempFile(<<>>)
                 /\ defers' = Append(defers, "Remove")
                 /\ UNCHANGED <<outcome, err, scratch>>
    /\ UNCHANGED <<docker, config, archive, workProcfile, handler, lambdaYml, resolved, pairVars>>

\* if err := generateDockerfile(handler, config, dockerfilePath); err != nil { return err }
GenerateDockerfile ==
    /\ pc = "render"
    /\ \E writeOk \in BOOLEAN :
         LET r == generateDockerfile(handler, config, writeOk) IN
         /\ log' = Append(log, Step("render", writeOk))
         /\ IF r.err # Nil
            THEN Return(r.err, defers)
            ELSE /\ pc' = "build"
                 /\ dockerfile' = TempFile(r.text)
                 /\ UNCHANGED <<outcome, err, defers, scratch>>
    /\ UNCHANGED <<docker, config, archive, workProcfile, handler, lambdaYml, resolved, pairVars>>

\* Variant: a failed image build is launched again.
BuildDockerImage_Retry ==
    /\ pc = "build"
    /\ \E launchErr \in BOOLEAN, exitCode \in ExitCodes :
         /\ launchErr => exitCode = 0
         /\ log' = Append(log, Stage("build", ~launchErr /\ exitCode = 0,
                                     launchErr, exitCode))
         /\ docker' = Append(docker, ImageBuildArgs(config))
         /\ IF buildDockerImage(launchErr, exitCode) = Nil
            THEN Return(Nil, defers)
            ELSE UNCHANGED <<pc, outcome, err, scratch, dockerfile, defers>>
    /\ UNCHANGED <<config, archive, workProcfile, handler, lambdaYml, resolved, pairVars>>

\* if err := buildDockerImage(taskHostBuildDir, config, dockerfilePath); err != nil
\* { return err }; return nil
BuildDockerImage ==
    /\ pc = "build"
    /\ \E launchErr \in BOOLEAN, exitCode \in ExitCodes :
         /\ launchErr => exitCode = 0
         /\ log' = Append(log, Stage("build", ~launchErr /\ exitCode = 0,
                                     launchErr, exitCode))
         /\ docker' = Append(docker, ImageBuildArgs(config))
         /\ Return(buildDockerImage(launchErr, exitCode), defers)
    /\ UNCHANGED <<config, archive, workProcfile, handler, lambdaYml, resolved, pairVars>>

\* ------------------------------------------------------------- lambda.yml
\* type LambdaYML struct
LambdaYML(builder, buildImage, runImage) ==
    [Builder |-> builder, BuildImage |-> buildImage, RunImage |-> runImage]

\* A line of the document: "key: value", or text that is no YAML.
KV(k, v) == [key |-> k, value |-> v]
Garbage == KV("@", "@")

YmlLines ==
    { KV("build_image", "yml/build"), KV("build_image", ""),
      KV("run_image", "yml/run"), KV("builder", "go"), Garbage }

RECURSIVE SeqsUpTo(_, _)
SeqsUpTo(S, n) ==
    IF n = 0 THEN {<<>>}
    ELSE LET shorter == SeqsUpTo(S, n - 1) IN
         shorter \cup { Append(q, x) : q \in shorter, x \in S }

\* lambda.yml in the working directory: absent, or present with a state
\* ("ok", "openFails", "readFails") and its lines.
YmlFile(exists, state, lines) == [exists |-> exists, state |-> state, lines |-> lines]

YmlStates ==
    { YmlFile(FALSE, "ok", <<>>), YmlFile(TRUE, "openFails", <<>>),
      YmlFile(TRUE, "readFails", <<>>) }
    \cup { YmlFile(TRUE, "ok", ls) : ls \in SeqsUpTo(YmlLines, MaxYmlLines) }

\* yaml.Unmarshal(bytes, &lambdaYML): an error on text that is no YAML;
\* otherwise each known key sets its field (a later line wins), other keys
\* are ignored and a key not in the document leaves its field "".
RECURSIVE Unmarshal(_, _)
Unmarshal(lines, acc) ==
    IF lines = <<>> THEN [ok |-> TRUE, yml |-> acc]
    ELSE LET l == Head(lines) IN
         IF l = Garbage THEN [ok |-> FALSE, yml |-> acc]
         ELSE Unmarshal(Tail(lines),
                CASE l.key = "builder"     -> [acc EXCEPT !.Builder = l.value]
                  [] l.key = "build_image" -> [acc EXCEPT !.BuildImage = l.value]
                  [] l.key = "run_image"   -> [acc EXCEPT !.RunImage = l.value]
                  [] OTHER                 -> acc)

\* Variant: the error of yaml.Unmarshal is dropped.
ParseLambdaYML_IgnoreUnmarshalErr(f) ==
    IF ~f.exists THEN [yml |-> LambdaYML("", "", ""), err |-> Nil]
    ELSE IF f.state = "openFails"
    THEN [yml |-> LambdaYML("", "", ""), err |-> Error("error opening lambda.yml: %w", FALSE, 0)]
    ELSE IF f.state = "readFails"
    THEN [yml |-> LambdaYML("", "", ""), err |-> Error("error reading lambda.yml: %w", FALSE, 0)]
    ELSE [yml |-> Unmarshal(f.lines, LambdaYML("", "", "")).yml, err |-> Nil]

\* ParseLambdaYML
ParseLambdaYML(f) ==
    IF ~f.exists THEN [yml |-> LambdaYML("", "", ""), err |-> Nil]
    ELSE IF f.state = "openFails"
    THEN [yml |-> LambdaYML("", "", ""), err |-> Error("error opening lambda.yml: %w", FALSE, 0)]
    ELSE IF f.state = "readFails"
    THEN [yml |-> LambdaYML("", "", ""), err |-> Error("error reading lambda.yml: %w", FALSE, 0)]
    ELSE LET u == Unmarshal(f.lines, LambdaYML("", "", "")) IN
         IF ~u.ok
         THEN [yml |-> u.yml, err |-> Error("error unmarshaling lambda.yml: %w", FALSE, 0)]
         ELSE [yml |-> u.yml, err |-> Nil]

\* Variant: the lambda.yml value is preferred over the explicit config value.
getBuildImage_YmlFirst(c, f, defaultImage) ==
    LET p == ParseLambdaYML(f) IN
    IF p.err = Nil /\ p.yml.BuildImage # "" THEN [image |-> p.yml.BuildImage, err |-> Nil]
    ELSE IF c.BuilderBuildImage # "" THEN [image |-> c.BuilderBuildImage, err |-> Nil]
    ELSE IF p.err # Nil THEN [image |-> "", err |-> p.err]
    ELSE [image |-> defaultImage, err |-> Nil]

\* getBuildImage(config, defaultImage), reading lambda.yml file f.
getBuildImage(c, f, defaultImage) ==
    IF c.BuilderBuildImage # "" THEN [image |-> c.BuilderBuildImage, err |-> Nil]
    ELSE LET p == ParseLambdaYML(f) IN
         IF p.err # Nil THEN [image |-> "", err |-> p.err]
         ELSE IF p.yml.BuildImage = "" THEN [image |-> defaultImage, err |-> Nil]
         ELSE [image |-> p.yml.BuildImage, err |-> Nil]

\* getRunImage(config, defaultImage), reading lambda.yml file f.
getRunImage(c, f, defaultImage) ==
    IF c.BuilderRunImage # "" THEN [image |-> c.BuilderRunImage, err |-> Nil]
    ELSE LET p == ParseLambdaYML(f) IN
         IF p.err # Nil THEN [image |-> "", err |-> p.err]
         ELSE IF p.yml.RunImage = "" THEN [image |-> defaultImage, err |-> Nil]
         ELSE [image |-> p.yml.RunImage, err |-> Nil]

\* The compiled-in defaults a builder passes.
DefaultImages == {"lambci/lambda:build-go1.x", "mlupin/docker-lambda:python3.9-build"}

Unresolved == [done |-> FALSE, default |-> "", image |-> "", err |-> Nil]
Resolution(d, r) == [done |-> TRUE, default |-> d, image |-> r.image, err |-> r.err]

\* A caller resolves the build image.
GetBuildImage ==
    /\ ~resolved.build.done
    /\ \E d \in DefaultImages :
         resolved' = [resolved EXCEPT !.build = Resolution(d, getBuildImage(config, lambdaYml, d))]
    /\ UNCHANGED <<docker, config, lambdaYml, pairVars>>
    /\ UNCHANGED pipelineVars

\* A caller resolves the run image.
GetRunImage ==
    /\ ~resolved.run.done
    /\ \E d \in DefaultImages :
         resolved' = [resolved EXCEPT !.run = Resolution(d, getRunImage(config, lambdaYml, d))]
    /\ UNCHANGED <<docker, config, lambdaYml, pairVars>>
    /\ UNCHANGED pipelineVars

\* ------------------------------------------------------------- two invocations
\* filepath.Clean, for paths whose names are neither "." nor "..": one "/"
\* between names, none at the end, "." for the empty relative path.
RECURSIVE Separated(_)
Separated(names) ==
    IF Len(names) <= 1 THEN names
    ELSE <<Head(names), "/">> \o Separated(Tail(names))

IsName(t) == t # "/"

Clean(p) ==
    LET names == SelectSeq(p, IsName)
        abs == p # <<>> /\ p[1] = "/" IN
    IF names = <<>> THEN (IF abs THEN <<"/">> ELSE <<".">>)
    ELSE (IF abs THEN <<"/">> ELSE <<>>) \o Separated(names)

\* filepath.Join(dir, name)
Join(dir, name) == IF dir = <<>> THEN Clean(<<name>>) ELSE Clean(dir \o <<"/", name>>)

Invocations == {1, 2}
Other(i) == CHOOSE j \in Invocations : j # i

\* An invocation that is not running.
Idle == [cfg |-> Config(FALSE, FALSE, "", "", "", -1, "", <<>>), pc |-> "idle",
         scratchName |-> "", tmpName |-> "", launched |-> <<>>]

\* The names os.MkdirTemp("", "lambda-builder") and
\* ioutil.TempFile("", "lambda-builder") can come up with.
TmpNames == { "lambda-builder" \o Itoa(k) : k \in 1..MaxTmpNames }
TmpPath(name) == "/tmp/" \o name

\* The paths of an invocation: zipPath, the Procfile of its working
\* directory, its scratch directory and its temporary Dockerfile.
ZipPath(i) == PathString(Join(invs[i].cfg.WorkingDirectory, "lambda.zip"))
ProcfilePath(i) == PathString(Join(invs[i].cfg.WorkingDirectory, "Procfile"))

Owned(i) ==
    {ZipPath(i), ProcfilePath(i)}
    \cup (IF invs[i].scratchName # "" THEN {TmpPath(invs[i].scratchName)} ELSE {})
    \cup (IF invs[i].tmpName # "" THEN {TmpPath(invs[i].tmpName)} ELSE {})

\* Invocation i reads, writes or removes paths: the history keeps whether
\* the path was one of the other invocation's at that moment.
Access(i, op, path) ==
    [by |-> i, op |-> op, path |-> path, foreign |-> path \in Owned(Other(i))]

\* executeBuilder of invocation i returns: its deferred calls remove its
\* scratch directory and its temporary Dockerfile, if it has them.
PairReturn(i, touched, launched) ==
    LET sn == invs[i].scratchName
        tn == invs[i].tmpName IN
    /\ invs' = [invs EXCEPT ![i].pc = "done", ![i].scratchName = "", ![i].tmpName = "",
                            ![i].launched = launched]
    /\ tmpdir' = tmpdir \ {sn, tn}
    /\ accesses' = accesses \cup touched
                   \cup (IF sn # "" THEN {Access(i, "remove", TmpPath(sn))} ELSE {})
                   \cup (IF tn # "" THEN {Access(i, "remove", TmpPath(tn))} ELSE {})

PairGoto(i, next, touched) ==
    /\ invs' = [invs EXCEPT ![i].pc = next]
    /\ accesses' = accesses \cup touched
    /\ UNCHANGED tmpdir

\* executeBuildContainer of invocation i; a sandbox that was launched writes
\* lambda.zip into the directory mounted at /tmp/task.
PairExecuteBuildContainer(i) ==
    /\ invs[i].pc = "start"
    /\ \E launchErr \in BOOLEAN, exitCode \in ExitCodes :
         LET e == executeBuildContainer(launchErr, exitCode)
             launched == Append(invs[i].launched, ContainerRunArgs(invs[i].cfg))
             touched == IF launchErr THEN {} ELSE {Access(i, "write", ZipPath(i))} IN
         /\ launchErr => exitCode = 0
         /\ IF e # Nil
            THEN PairReturn(i, touched, launched)
            ELSE /\ invs' = [invs EXCEPT ![i].pc = "mkdir", ![i].launched = launched]
                 /\ accesses' = accesses \cup touched
                 /\ UNCHANGED tmpdir
    /\ UNCHANGED soloVars

\* Variant: the scratch directory has a fixed name and is shared if it exists.
PairMkdirTemp_FixedName(i) ==
    /\ invs[i].pc = "mkdir"
    /\ \E ok \in BOOLEAN :
         IF ~ok
         THEN PairReturn(i, {}, invs[i].launched)
         ELSE /\ invs' = [invs EXCEPT ![i].pc = "extract",
                                      ![i].scratchName = "lambda-builder"]
              /\ tmpdir' = tmpdir \cup {"lambda-builder"}
              /\ accesses' = accesses \cup {Access(i, "write", TmpPath("lambda-builder"))}
    /\ UNCHANGED soloVars

\* os.MkdirTemp of invocation i: a name that does not exist yet.
PairMkdirTemp(i) ==
    /\ invs[i].pc = "mkdir"
    /\ \E ok \in BOOLEAN :
         IF ~ok
         THEN PairReturn(i, {}, invs[i].launched)
         ELSE \E n \in TmpNames \ tmpdir :
                /\ invs' = [invs EXCEPT ![i].pc = "extract", ![i].scratchName = n]
                /\ tmpdir' = tmpdir \cup {n}
                /\ accesses' = accesses \cup {Access(i, "write", TmpPath(n))}
    /\ UNCHANGED soloVars

\* ReadFile(zipPath) and extract.Zip into the scratch directory of invocation i.
PairExtract(i) ==
    /\ invs[i].pc = "extract"
    /\ \E ok \in BOOLEAN :
         LET touched == {Access(i, "read", ZipPath(i)),
                         Access(i, "write", TmpPath(invs[i].scratchName))} IN
         IF ~ok THEN PairReturn(i, touched, invs[i].launched)
         ELSE PairGoto(i, "procfile", touched)
    /\ UNCHANGED soloVars

\* The Procfile test on the scratch directory and
\* writeProcfile(handler, config.WorkingDirectory) of invocation i.
PairWriteProcfileWorkingDir(i) ==
    /\ invs[i].pc = "procfile"
    /\ \E ok \in BOOLEAN :
         LET touched == {Access(i, "read", TmpPath(invs[i].scratchName)),
                         Access(i, "write", ProcfilePath(i))} IN
         IF ~ok THEN PairReturn(i, touched, invs[i].launched)
         ELSE PairGoto(i, "procfileBuild", touched)
    /\ UNCHANGED soloVars

\* writeProcfile(handler, taskHostBuildDir) of invocation i.
PairWriteProcfileBuildDir(i) ==
    /\ invs[i].pc = "procfileBuild"
    /\ \E ok \in BOOLEAN :
         LET touched == {Access(i, "write", TmpPath(invs[i].scratchName))} IN
         IF ~ok THEN PairReturn(i, touched, invs[i].launched)
         ELSE PairGoto(i, "image", touched)
    /\ UNCHANGED soloVars

\* ioutil.TempFile of invocation i: a name that does not exist yet.
PairCreateTempDockerfile(i) ==
    /\ invs[i].pc = "image"
    /\ \E ok \in BOOLEAN :
         IF ~ok
         THEN PairReturn(i, {}, invs[i].launched)
         ELSE \E n \in TmpNames \ tmpdir :
                /\ invs' = [invs EXCEPT ![i].pc = "render", ![i].tmpName = n]
                /\ tmpdir' = tmpdir \cup {n}
                /\ accesses' = accesses \cup {Access(i, "write", TmpPath(n))}
    /\ UNCHANGED soloVars

\* generateDockerfile of invocation i writes its temporary Dockerfile.
PairGenerateDockerfile(i) ==
    /\ invs[i].pc = "render"
    /\ \E ok \in BOOLEAN :
         LET touched == {Access(i, "write", TmpPath(invs[i].tmpName))} IN
         IF ~ok THEN PairReturn(i, touched, invs[i].launched)
         ELSE PairGoto(i, "build", touched)
    /\ UNCHANGED soloVars

\* buildDockerImage of invocation i: docker reads the temporary Dockerfile
\* and the scratch directory; then executeBuilder returns.
PairBuildDockerImage(i) ==
    /\ invs[i].pc = "build"
    /\ PairReturn(i, {Access(i, "read", TmpPath(invs[i].tmpName)),
                      Access(i, "read", TmpPath(invs[i].scratchName))},
                  Append(invs[i].launched, ImageBuildArgs(invs[i].cfg)))
    /\ UNCHANGED soloVars

\* ------------------------------------------------------------- specifications
Ports == {-1, 8080}
ImageTags == {"", "registry/fn:1"}
WorkingDirs == { <<"/", "app">>, <<"/", "srv", "/", "fn", "/">>, <<"fn">> }

\* executeBuilder is entered with a resolved config; the working directory
\* may already hold a Procfile; lambda.zip is not built yet.
Init ==
    /\ config \in { Config(g, w, h, "build/img", "run/img", p, t, d) :
                      g \in BOOLEAN, w \in BOOLEAN,
                      h \in {"", "main.handler"}, p \in Ports,
                      t \in ImageTags, d \in WorkingDirs }
    /\ pc = "start"
    /\ outcome = "running"
    /\ err = Nil
    /\ defers = <<>>
    /\ archive = Zip("missing", NoFile, "")
    /\ workProcfile \in {NoFile, File("web: mine")}
    /\ scratch = NoDir
    /\ dockerfile = NoTemp
    /\ handler = ""
    /\ log = <<>>
    /\ docker = <<>>
    /\ invs = [i \in Invocations |-> Idle]
    /\ tmpdir = {}
    /\ accesses = {}
    /\ lambdaYml = YmlFile(FALSE, "ok", <<>>)
    /\ resolved = [build |-> Unresolved, run |-> Unresolved]

Next ==
    \/ ExecuteBuildContainer
    \/ MkdirTemp
    \/ Extract
    \/ SkipProcfile
    \/ WriteProcfileWorkingDir
    \/ WriteProcfileBuildDir
    \/ SkipImage
    \/ CreateTempDockerfile
    \/ GenerateDockerfile
    \/ BuildDockerImage

Spec == Init /\ [][Next]_vars

\* Image resolution: config's explicit images and lambda.yml are the inputs.
InitResolve ==
    /\ config \in { Config(FALSE, FALSE, "", b, r, -1, "", <<"/", "app">>) :
                      b \in {"", "cfg/build"}, r \in {"", "cfg/run"} }
    /\ lambdaYml \in YmlStates
    /\ resolved = [build |-> Unresolved, run |-> Unresolved]
    /\ pc = "resolve"
    /\ outcome = "running"
    /\ err = Nil
    /\ defers = <<>>
    /\ archive = Zip("missing", NoFile, "")
    /\ workProcfile = NoFile
    /\ scratch = NoDir
    /\ dockerfile = NoTemp
    /\ handler = ""
    /\ log = <<>>
    /\ docker = <<>>
    /\ invs = [i \in Invocations |-> Idle]
    /\ tmpdir = {}
    /\ accesses = {}

NextResolve == GetBuildImage \/ GetRunImage

SpecResolve == InitResolve /\ [][NextResolve]_vars

\* ------------------------------------------------------------- properties
\* What the history says about a stage.
Ran(name) == \E i \in 1..Len(log) : log[i].stage = name
RanOk(name) == \E i \in 1..Len(log) : log[i].stage = name /\ log[i].ok
Failed(name) == \E i \in 1..Len(log) : log[i].stage = name /\ ~log[i].ok

\* The sandbox container was launched and exited 0.
ContainerExitedZero ==
    \E i \in 1..Len(log) :
        log[i].stage = "container" /\ ~log[i].launchErr /\ log[i].exitCode = 0

\* The image build was launched and exited 0.
ImageBuildExitedZero ==
    \E i \in 1..Len(log) :
        log[i].stage = "build" /\ ~log[i].launchErr /\ log[i].exitCode = 0

\* C1: no stage after a failed stage executes: a failed stage is the last
\* stage of the history and executeBuilder has finished with it; so a failed
\* sandbox run is followed by no scratch directory, extraction, Procfile
\* write, render or image build, a failed extraction by no Procfile write,
\* render or image build, a failed Procfile write by no render or image
\* build, and a failed render by no image build.
NoStageAfterFailure ==
    /\ \A i \in 1..Len(log) : ~log[i].ok => (i = Len(log) /\ pc = "done")
    /\ Failed("container") =>
         ~(Ran("mkdir") \/ Ran("extract") \/ Ran("procfileWork") \/ Ran("procfileBuild")
           \/ Ran("tempfile") \/ Ran("render") \/ Ran("build")) /\ ~scratch.exists
    /\ Failed("extract") =>
         ~(Ran("procfileWork") \/ Ran("procfileBuild") \/ Ran("render") \/ Ran("build"))
    /\ (Failed("procfileWork") \/ Failed("procfileBuild")) => ~(Ran("render") \/ Ran("build"))
    /\ Failed("render") => ~Ran("build")

\* C1 witness: the extraction failed with image generation and Procfile
\* writing enabled, and executeBuilder has finished.
ExtractionFailedAndStopped ==
    /\ pc = "done"
    /\ Failed("extract")
    /\ config.GenerateRunImage /\ config.WriteProcfile

\* C2: once the scratch directory was created it no longer exists when
\* executeBuilder has finished, whichever way it finished.
ScratchRemovedOnExit == (pc = "done" /\ RanOk("mkdir")) => ~scratch.exists

\* C2 witness: executeBuilder finished on the failed creation of the
\* temporary Dockerfile, after the scratch directory was created.
ScratchRemovedAfterTempFileFailure ==
    /\ pc = "done"
    /\ RanOk("mkdir")
    /\ Failed("tempfile")
    /\ ~scratch.exists

\* C3: once the temporary Dockerfile was created it no longer exists when
\* executeBuilder has finished, whether render and image build succeeded.
TempDockerfileRemovedOnExit == (pc = "done" /\ RanOk("tempfile")) => ~dockerfile.exists

\* C3 witness: the image build failed after the temporary Dockerfile was
\* rendered, and the file is gone.
TempDockerfileRemovedAfterBuildFailure ==
    /\ pc = "done"
    /\ RanOk("tempfile") /\ RanOk("render") /\ Failed("build")
    /\ ~dockerfile.exists

\* C4: executeBuilder returns nil only if the sandbox exited 0, the archive
\* was extracted, every attempted Procfile write succeeded and, when
\* GenerateRunImage is true, the render succeeded and the image build
\* exited 0.
SuccessOnlyIfAllStagesSucceeded ==
    (pc = "done" /\ outcome = "returned" /\ err = Nil) =>
        /\ ContainerExitedZero
        /\ RanOk("extract")
        /\ ~Failed("procfileWork") /\ ~Failed("procfileBuild")
        /\ config.GenerateRunImage => (RanOk("render") /\ ImageBuildExitedZero)

\* C4 witness: a successful build that wrote both Procfiles and built the image.
SucceededWithEveryStage ==
    /\ pc = "done" /\ outcome = "returned" /\ err = Nil
    /\ RanOk("procfileWork") /\ RanOk("procfileBuild")
    /\ ImageBuildExitedZero

\* C5: a Procfile is written to the working directory only if
\* config.WriteProcfile is true, no Procfile exists in the working directory
\* and the resolved handler is non-empty; a Procfile that exists in the
\* working directory is never overwritten or modified.
ProcfileWrittenOnlyIfAbsent ==
    [][ /\ (pc = "procfile" /\ pc' = "procfileBuild") =>
              (config.WriteProcfile /\ ~workProcfile.exists /\ handler # "")
        /\ workProcfile.exists => workProcfile' = workProcfile ]_vars

\* C6: when both Procfile writes succeeded, then as long as the scratch
\* directory exists (so when the image build starts) the working directory
\* and the scratch directory hold the same Procfile, the declaration of the
\* resolved handler.
BothProcfilesAgree ==
    (RanOk("procfileWork") /\ RanOk("procfileBuild") /\ scratch.exists) =>
        /\ workProcfile.exists /\ scratch.procfile.exists
        /\ workProcfile.content = scratch.procfile.content
        /\ workProcfile.content = ProcfileText(handler)

\* C6 witness: the image build is about to start after both writes, with a
\* handler that was detected in the archive and not given in the config.
ImageBuildStartsWithBothProcfiles ==
    /\ pc = "build"
    /\ RanOk("procfileWork") /\ RanOk("procfileBuild")
    /\ config.Handler = "" /\ handler # ""

\* The document as a reader sees it: lambda.yml can be parsed when it is
\* absent or is readable YAML; the value of a key is that of its last line.
Parsable(f) ==
    \/ ~f.exists
    \/ f.state = "ok" /\ \A i \in 1..Len(f.lines) : f.lines[i] # Garbage

DocValue(f, key) ==
    LET at == { i \in 1..Len(f.lines) : f.lines[i].key = key } IN
    IF at = {} THEN ""
    ELSE f.lines[CHOOSE i \in at : \A j \in at : j <= i].value

Precedence(explicit, fromYml, default) ==
    IF explicit # "" THEN explicit ELSE IF fromYml # "" THEN fromYml ELSE default

\* C7: getBuildImage and getRunImage return the explicit config value when
\* it is non-empty, otherwise the lambda.yml value when it is non-empty,
\* otherwise the default passed in (lambda.yml absent or parsable).
ImagePrecedence ==
    /\ (resolved.build.done /\ (Parsable(lambdaYml) \/ config.BuilderBuildImage # "")) =>
          /\ resolved.build.err = Nil
          /\ resolved.build.image =
                Precedence(config.BuilderBuildImage, DocValue(lambdaYml, "build_image"),
                           resolved.build.default)
    /\ (resolved.run.done /\ (Parsable(lambdaYml) \/ config.BuilderRunImage # "")) =>
          /\ resolved.run.err = Nil
          /\ resolved.run.image =
                Precedence(config.BuilderRunImage, DocValue(lambdaYml, "run_image"),
                           resolved.run.default)

\* C7 witness: both explicit values are empty, lambda.yml sets both images,
\* and both were resolved to the lambda.yml values.
ImagesResolvedFromYml ==
    /\ resolved.build.done /\ resolved.run.done
    /\ config.BuilderBuildImage = "" /\ config.BuilderRunImage = ""
    /\ resolved.build.image = "yml/build" /\ resolved.run.image = "yml/run"

\* C8 as stated: resolution fails whenever lambda.yml exists and cannot be
\* parsed, whether or not an explicit config value is set, and never fails
\* when lambda.yml is absent.
ResolutionFailsOnUnparsableYml ==
    /\ (resolved.build.done /\ ~Parsable(lambdaYml)) => resolved.build.err # Nil
    /\ (resolved.run.done /\ ~Parsable(lambdaYml)) => resolved.run.err # Nil
    /\ (resolved.build.done /\ ~lambdaYml.exists) => resolved.build.err = Nil
    /\ (resolved.run.done /\ ~lambdaYml.exists) => resolved.run.err = Nil

\* C8 amended: resolution of an image fails exactly when its explicit config
\* value is empty and lambda.yml exists but cannot be parsed; with an
\* explicit value set lambda.yml is not read and the explicit value is
\* returned; with lambda.yml absent resolution never fails.
ResolutionFailsOnUnparsableYmlUnlessExplicit ==
    /\ resolved.build.done =>
          /\ (resolved.build.err # Nil) <=>
                (config.BuilderBuildImage = "" /\ ~Parsable(lambdaYml))
          /\ config.BuilderBuildImage # "" => resolved.build.image = config.BuilderBuildImage
    /\ resolved.run.done =>
          /\ (resolved.run.err # Nil) <=>
                (config.BuilderRunImage = "" /\ ~Parsable(lambdaYml))
          /\ config.BuilderRunImage # "" => resolved.run.image = config.BuilderRunImage

\* C8 witness: lambda.yml holds text that is no YAML, no explicit build
\* image is set, and the resolution of the build image failed.
ResolutionFailedOnMalformedYml ==
    /\ resolved.build.done
    /\ config.BuilderBuildImage = ""
    /\ lambdaYml.state = "ok" /\ ~Parsable(lambdaYml)
    /\ resolved.build.err.msg = "error unmarshaling lambda.yml: %w"

\* C9: a sandbox container that exits with a non-zero code c makes
\* executeBuilder return an error carrying exactly c; one that is launched
\* and exits 0 yields no error from executeBuildContainer, so executeBuilder
\* goes on to create the scratch directory.
ContainerExitCodeCarried ==
    \A i \in 1..Len(log) :
        log[i].stage = "container" =>
            /\ (~log[i].launchErr /\ log[i].exitCode # 0) =>
                  /\ pc = "done" /\ outcome = "returned"
                  /\ err.msg = "error executing builder, exit code %d"
                  /\ err.hasCode /\ err.code = log[i].exitCode
            /\ (~log[i].launchErr /\ log[i].exitCode = 0 /\ Len(log) = 1) =>
                  /\ pc = "mkdir" /\ outcome = "running" /\ err = Nil

\* C9 witness: the sandbox was ended by a signal (exit code -1) and
\* executeBuilder returned the error carrying -1.
ContainerFailureReported ==
    /\ pc = "done"
    /\ Len(log) = 1 /\ log[1].stage = "container" /\ log[1].exitCode = -1
    /\ err.code = -1

\* lambda.zip is missing or unreadable after a sandbox run that exited 0.
ArchiveMissingAfterSuccess ==
    ContainerExitedZero /\ archive.kind \in {"missing", "unreadable"}

\* C10 as stated: if the sandbox exited 0 but lambda.zip is missing or
\* unreadable, executeBuilder fails with the extraction error, never reports
\* success, writes no Procfile and builds no image.
MissingArchiveIsExtractionError ==
    (pc = "done" /\ ArchiveMissingAfterSuccess) =>
        /\ outcome = "returned"
        /\ err.msg = "error extracting lambda.zip into build context dir: %w"
        /\ ~Ran("procfileWork") /\ ~Ran("procfileBuild") /\ ~Ran("build")

\* C10 amended: if the sandbox exited 0 but lambda.zip is missing or
\* unreadable, executeBuilder returns an error, which is the extraction
\* error whenever the scratch directory could be created (otherwise the
\* error of creating it); it never reports success, writes no Procfile and
\* builds no image.
MissingArchiveIsFatal ==
    (pc = "done" /\ ArchiveMissingAfterSuccess) =>
        /\ outcome = "returned" /\ err # Nil
        /\ RanOk("mkdir") =>
              (Failed("extract")
               /\ err.msg = "error extracting lambda.zip into build context dir: %w")
        /\ ~RanOk("mkdir") => err.msg = "error creating build dir: %w"
        /\ ~Ran("procfileWork") /\ ~Ran("procfileBuild") /\ ~Ran("build")

\* C10 witness: the sandbox exited 0, lambda.zip is missing, the scratch
\* directory was created and executeBuilder returned the extraction error.
MissingArchiveReported ==
    /\ pc = "done"
    /\ ContainerExitedZero /\ archive.kind = "missing"
    /\ RanOk("mkdir")
    /\ err.msg = "error extracting lambda.zip into build context dir: %w"

\* The temporary Dockerfile holds the rendered text.
Rendered == RanOk("render") /\ dockerfile.exists

\* The number of lines of the rendered Dockerfile equal to l.
Occurrences(l) ==
    Cardinality({ i \in 1..Len(dockerfile.content) : dockerfile.content[i] = l })

HasCmdLine ==
    \E i \in 1..Len(dockerfile.content) : dockerfile.content[i].directive = "CMD"

\* C11: the rendered Dockerfile holds a CMD line if and only if the handler
\* passed to generateDockerfile is non-empty, and rendering succeeds for an
\* empty and for a non-empty handler (whenever the file can be written).
CmdLineIffHandler ==
    /\ Rendered => (HasCmdLine <=> handler # "")
    /\ \A i \in 1..Len(log) :
          (log[i].stage = "render" /\ ~log[i].ok) => err.msg = "error writing Dockerfile: %s"

\* The decimal text of the ports of the model, written out.
PortText(p) == CASE p = -1 -> "-1" [] p = 8080 -> "8080"

PortEnvLines(p) ==
    { Line("ENV", "DOCKER_LAMBDA_API_PORT=" \o PortText(p)),
      Line("ENV", "DOCKER_LAMBDA_RUNTIME_PORT=" \o PortText(p)) }

\* C12: the rendered Dockerfile holds the two port lines, each once and set
\* to config.Port, exactly when config.Port is not -1; when it is -1 it
\* holds no port line at all.
PortLinesIffPortSet ==
    Rendered =>
        \A p \in Ports : \A l \in PortEnvLines(p) :
            Occurrences(l) = IF p = config.Port /\ config.Port # -1 THEN 1 ELSE 0

\* C12 witness: a Dockerfile rendered for port 8080 with both port lines.
PortLinesRendered ==
    /\ Rendered /\ config.Port = 8080
    /\ Occurrences(Line("ENV", "DOCKER_LAMBDA_API_PORT=8080")) = 1
    /\ Occurrences(Line("ENV", "DOCKER_LAMBDA_RUNTIME_PORT=8080")) = 1

\* C13: the image build is invoked only when config.GenerateRunImage is true
\* and every earlier stage succeeded; when it is false no temporary
\* Dockerfile is created, nothing is rendered and the image builder is not
\* invoked, up to and including the end of executeBuilder.
ImageBuildOnlyWhenEnabled ==
    /\ \A i \in 1..Len(log) :
          log[i].stage = "build" =>
              /\ config.GenerateRunImage
              /\ \A j \in 1..(i - 1) : log[j].ok
              /\ ContainerExitedZero /\ RanOk("mkdir") /\ RanOk("extract")
              /\ RanOk("tempfile") /\ RanOk("render")
    /\ ~config.GenerateRunImage =>
          /\ ~Ran("tempfile") /\ ~Ran("render") /\ ~Ran("build")
          /\ ~dockerfile.exists

\* C13 witness: executeBuilder returned nil with image generation disabled,
\* without a temporary Dockerfile and without an image build.
CompletedWithoutImage ==
    /\ pc = "done" /\ outcome = "returned" /\ err = Nil
    /\ ~config.GenerateRunImage
    /\ ~Ran("tempfile") /\ ~Ran("build")

\* The docker commands launched so far with the given subcommand.
Launches(command) == { i \in 1..Len(docker) : docker[i].command = command }

\* The last name of a path: its last token that is not "/".
LastName(p) ==
    LET names == { i \in 1..Len(p) : p[i] # "/" } IN
    p[CHOOSE i \in names : \A j \in names : j <= i]

\* C14: the tag passed to the image build is config.ImageTag when that is
\* non-empty and otherwise lambda-builder/<basename of WorkingDirectory>:latest,
\* and the tag printed before the build is the same value.
ImageTagPassed ==
    \A i \in Launches("image build") :
        /\ docker[i].tag =
              IF config.ImageTag # "" THEN config.ImageTag
              ELSE "lambda-builder/" \o LastName(config.WorkingDirectory) \o ":latest"
        /\ docker[i].printed = docker[i].tag

\* C14 witness: an image build launched with the default tag of a working
\* directory given with a trailing slash.
DefaultTagPassed ==
    /\ Launches("image build") # {}
    /\ config.ImageTag = ""
    /\ config.WorkingDirectory = <<"/", "srv", "/", "fn", "/">>
    /\ docker[Len(docker)].tag = "lambda-builder/fn:latest"

\* C15: within one executeBuilder the sandbox container run is launched at
\* most once and the image build is launched at most once, whatever their
\* outcome.
NoStageRetried ==
    /\ Cardinality(Launches("container run")) <= 1
    /\ Cardinality(Launches("image build")) <= 1
    /\ Cardinality({ i \in 1..Len(log) : log[i].stage = "container" }) <= 1
    /\ Cardinality({ i \in 1..Len(log) : log[i].stage = "build" }) <= 1

\* C15 witness: the image build could not be launched, executeBuilder has
\* finished and each docker command was launched once.
FailedBuildNotRetried ==
    /\ pc = "done"
    /\ \E i \in 1..Len(log) : log[i].stage = "build" /\ log[i].launchErr
    /\ Cardinality(Launches("container run")) = 1
    /\ Cardinality(Launches("image build")) = 1

\* C17: if the Procfile write to the working directory succeeded and the
\* write to the scratch build directory failed, executeBuilder has returned
\* the build-directory write error, the Procfile written to the working
\* directory is still there, and nothing of the image stage ran.
PartialProcfileWriteLeftInPlace ==
    (RanOk("procfileWork") /\ Failed("procfileBuild")) =>
        /\ pc = "done" /\ outcome = "returned"
        /\ err.msg = "error writing Procfile to temporary build directory: %w"
        /\ workProcfile = File(ProcfileText(handler))
        /\ ~Ran("tempfile") /\ ~Ran("render") /\ ~Ran("build")
        /\ Launches("image build") = {}

\* C17 witness: the second write failed with image generation enabled and a
\* Procfile left in the working directory.
SecondProcfileWriteFailed ==
    /\ pc = "done"
    /\ RanOk("procfileWork") /\ Failed("procfileBuild")
    /\ config.GenerateRunImage
    /\ workProcfile.exists

\* C18: if creating the temporary Dockerfile fails, executeBuilder returns
\* the error "error generating temporary Dockerfile" (it does not panic in
\* its deferred cleanup), the scratch directory is removed and neither
\* render nor image build is attempted.
TempFileFailureReturnsError ==
    Failed("tempfile") =>
        /\ pc = "done" /\ outcome = "returned"
        /\ err.msg = "error generating temporary Dockerfile: %w"
        /\ ~scratch.exists
        /\ ~Ran("render") /\ ~Ran("build")

\* The Procfile block was reached with WriteProcfile set and an empty handler.
EmptyHandlerWithWriteProcfile ==
    RanOk("extract") /\ config.WriteProcfile /\ handler = ""

\* C19: with WriteProcfile set and an empty resolved handler no Procfile is
\* written to either target and no error comes of it: the working directory
\* keeps what it had, and when GenerateRunImage is true executeBuilder does
\* not finish before entering the image stage.
EmptyHandlerIsNoError ==
    EmptyHandlerWithWriteProcfile =>
        /\ ~Ran("procfileWork") /\ ~Ran("procfileBuild")
        /\ workProcfile \in {NoFile, File("web: mine")}
        /\ scratch.exists => scratch.procfile = archive.procfile
        /\ pc # "procfileBuild"
        /\ (pc = "done" /\ config.GenerateRunImage) => Ran("tempfile")
        /\ (pc = "done" /\ ~config.GenerateRunImage) => (outcome = "returned" /\ err = Nil)

\* C19 witness: executeBuilder returned nil after building the image, with
\* WriteProcfile set and an empty handler.
SucceededWithEmptyHandler ==
    /\ EmptyHandlerWithWriteProcfile
    /\ ~archive.procfile.exists
    /\ pc = "done" /\ outcome = "returned" /\ err = Nil
    /\ config.GenerateRunImage /\ ImageBuildExitedZero

\* C20: if the extracted archive holds a Procfile, executeBuilder writes no
\* Procfile to the working directory or to the scratch directory, and the
\* scratch directory keeps the archive's own Procfile, also with
\* WriteProcfile set and a non-empty handler.
ArchiveProcfileKept ==
    (RanOk("extract") /\ archive.procfile.exists) =>
        /\ ~Ran("procfileWork") /\ ~Ran("procfileBuild")
        /\ workProcfile \in {NoFile, File("web: mine")}
        /\ scratch.exists => scratch.procfile = archive.procfile

\* C20 witness: the image build is about to start on a build context that
\* holds the archive's Procfile, with WriteProcfile set, a non-empty handler
\* and no Procfile in the working directory.
ImageBuildStartsWithArchiveProcfile ==
    /\ pc = "build"
    /\ config.WriteProcfile /\ handler # ""
    /\ ~workProcfile.exists
    /\ scratch.procfile = File("web: zipped")

\* Two invocations that write Procfiles and build images, with any
\* Identifier and WorkingDirectory each.
PairIdentifiers == {"a", "b"}
PairWorkingDirs == { <<"/", "app">>, <<"/", "app", "/">>, <<"/", "srv", "/", "fn">> }

PairConfig(id, wd) ==
    [Config(TRUE, TRUE, "main.handler", "build/img", "run/img", -1, "", wd)
        EXCEPT !.Identifier = id]

InitPair ==
    /\ \E id \in PairIdentifiers, wd1 \in PairWorkingDirs, wd2 \in PairWorkingDirs :
         invs = [i \in Invocations |->
                    [Idle EXCEPT !.pc = "start",
                                 !.cfg = IF i = 1 THEN PairConfig("a", wd1)
                                         ELSE PairConfig(id, wd2)]]
    /\ tmpdir = {}
    /\ accesses = {}
    /\ config = Config(FALSE, FALSE, "", "", "", -1, "", <<>>)
    /\ pc = "pair"
    /\ outcome = "running"
    /\ err = Nil
    /\ defers = <<>>
    /\ archive = Zip("missing", NoFile, "")
    /\ workProcfile = NoFile
    /\ scratch = NoDir
    /\ dockerfile = NoTemp
    /\ handler = ""
    /\ log = <<>>
    /\ docker = <<>>
    /\ lambdaYml = YmlFile(FALSE, "ok", <<>>)
    /\ resolved = [build |-> Unresolved, run |-> Unresolved]

NextPair ==
    \E i \in Invocations :
        \/ PairExecuteBuildContainer(i)
        \/ PairMkdirTemp(i)
        \/ PairExtract(i)
        \/ PairWriteProcfileWorkingDir(i)
        \/ PairWriteProcfileBuildDir(i)
        \/ PairCreateTempDockerfile(i)
        \/ PairGenerateDockerfile(i)
        \/ PairBuildDockerImage(i)

SpecPair == InitPair /\ [][NextPair]_vars

\* The sandbox containers launched by the two invocations have different
\* names and mount different host directories, and no invocation touched a
\* path of the other.
ContainerRuns(i) ==
    { k \in 1..Len(invs[i].launched) : invs[i].launched[k].command = "container run" }

PairIsolated ==
    /\ \A k1 \in ContainerRuns(1), k2 \in ContainerRuns(2) :
          /\ invs[1].launched[k1].name # invs[2].launched[k2].name
          /\ Clean(invs[1].launched[k1].mount) # Clean(invs[2].launched[k2].mount)
    /\ \A a \in accesses : ~a.foreign

\* C16 as stated: two concurrent invocations with distinct Identifier and
\* distinct WorkingDirectory values have distinct container names and
\* bind-mounted directories and never touch each other's scratch directory,
\* temporary Dockerfile, archive or Procfile.
DistinctValuesIsolate ==
    (/\ invs[1].cfg.Identifier # invs[2].cfg.Identifier
     /\ invs[1].cfg.WorkingDirectory # invs[2].cfg.WorkingDirectory) => PairIsolated

\* C16 amended: the same, for WorkingDirectory values that name different
\* directories (that differ after filepath.Clean), not merely different text.
DistinctDirectoriesIsolate ==
    (/\ invs[1].cfg.Identifier # invs[2].cfg.Identifier
     /\ Clean(invs[1].cfg.WorkingDirectory) # Clean(invs[2].cfg.WorkingDirectory))
        => PairIsolated

\* C16 witness: two invocations with different identifiers and directories
\* are both about to build their image, each holding a scratch directory and
\* a temporary Dockerfile.
BothInvocationsAtImageBuild ==
    /\ invs[1].cfg.Identifier # invs[2].cfg.Identifier
    /\ Clean(invs[1].cfg.WorkingDirectory) # Clean(invs[2].cfg.WorkingDirectory)
    /\ \A i \in Invocations :
          invs[i].pc = "build" /\ invs[i].scratchName # "" /\ invs[i].tmpName # ""

====
